---- MODULE Spec2Model ----
(***************************************************************************)
(* Model of queryResolver.References                                       *)
(* (enterprise/cmd/frontend/internal/codeintel/resolvers/                   *)
(* query_references.go): cursor-encoded pagination over a local            *)
(* (graph-traversal) phase and a remote (moniker-search) phase.            *)
(*                                                                         *)
(* One References call is one action.  The stores are read-only data       *)
(* chosen in Init (db); a store access may fail, which is an input of the  *)
(* action.  Variables other than token, uploadCache and result are         *)
(* history variables that record what the call did.                        *)
(***************************************************************************)
EXTENDS Integers, Sequences, FiniteSets, TLC

VARIABLES
    db,          \* what the stores hold (never changes)
    limit,       \* the page size of the request
    token,       \* the continuation token the caller holds
    uploadCache, \* r.uploadCache: the IDs of the uploads the resolver has hydrated
    result,      \* what the last References call returned
    cur,         \* history: the cursor as the last successful call left it
    status,      \* history: fresh, paging, done or failed
    pages,       \* history: the locations returned so far, in order
    localPages,  \* history: the locations phase 1 contributed so far, in order
    failed,      \* history: the store accesses that failed so far
    page,        \* history: what the last References call did
    searchedIDs, \* history: the indexes the moniker searches of the request covered
    again,       \* history: what resolving the last token a second time returned
    probe        \* the last call of rangeContainsPosition on its own, and its result

vars ==
    <<db, limit, token, uploadCache, result, cur, status, pages, localPages, failed, page,
      searchedIDs, again, probe>>

\* ---------------------------------------------------------------- bounds
MaxLimit == 2
MaxLocal == 3
MaxLine == 2
MaxCharacter == 2

\* ------------------------------------------------------- program constant
maximumIndexesPerMonikerSearch == 50

\* ---------------------------------------------------------------- helpers
Min(a, b) == IF a < b THEN a ELSE b

Range(s) == {s[i] : i \in 1..Len(s)}

\* s[from+1 .. from+n], cut at the end of s (a store's LIMIT n OFFSET from)
Window(s, from, n) == SubSeq(s, from + 1, Min(Len(s), from + n))

RECURSIVE SortedSeq(_)
SortedSeq(S) ==
    IF S = {} THEN <<>>
    ELSE LET m == CHOOSE x \in S : \A y \in S : x <= y
         IN <<m>> \o SortedSeq(S \ {m})

RECURSIVE Flatten(_)
Flatten(ss) == IF ss = <<>> THEN <<>> ELSE Head(ss) \o Flatten(Tail(ss))

Nil == [present |-> FALSE, items |-> <<>>]
Some(s) == [present |-> TRUE, items |-> s]

\* ------------------------------------------------------------- data types
Pos(l, c) == [Line |-> l, Character |-> c]
Rng(l1, c1, l2, c2) == [Start |-> Pos(l1, c1), End |-> Pos(l2, c2)]
Loc(id, path, r) == [DumpID |-> id, Path |-> path, Range |-> r]

\* ------------------------------------------------------------- store data
\* The stores are external collaborators; db is what they hold for the request
\* (repository, commit, path, line, character) being paginated.
\*   adjusted   the visible uploads with the query position adjusted into each
\*   localTotal number of graph-traversal references each adjusted upload holds
\*   monikers   the export monikers at the query position
\*   nilMonikers whether the moniker resolver returns a nil slice (rather than an
\*              empty one) when it finds no moniker
\*   scan       the candidate reference rows {DumpID, Filter}, in scan order
\*   defs       the uploads defining one of the monikers

QueryPath == "sub/a.go"

AdjustedOf(id) ==
    IF id = 5
    THEN [ID |-> 5, AdjustedPath |-> QueryPath, AdjustedPosition |-> Pos(1, 2),
          AdjustedPathInBundle |-> "sub/a.go"]
    ELSE [ID |-> id, AdjustedPath |-> QueryPath, AdjustedPosition |-> Pos(2, 2),
          AdjustedPathInBundle |-> "a.go"]

\* k-th location of the local result list of an adjusted upload: the first is the
\* range enclosing the query position, the others are further down the file
LocalLoc(u, k) ==
    IF k = 1
    THEN Loc(u.ID, u.AdjustedPath,
             Rng(u.AdjustedPosition.Line, 0, u.AdjustedPosition.Line, 5))
    ELSE Loc(u.ID, u.AdjustedPath, Rng(10 * k, 0, 10 * k, 5))

LocalLocs(d, u) == [k \in 1..d.localTotal[u.ID] |-> LocalLoc(u, k)]

AdjustedByID(d, id) == CHOOSE u \in Range(d.adjusted) : u.ID = id

\* moniker-search rows of each index
MonikerLocs(id) ==
    IF id = 1 THEN << Loc(1, "x.go", Rng(1, 0, 1, 5)) >>
    ELSE IF id = 5 THEN
        << Loc(5, QueryPath, Rng(1, 0, 1, 5)),     \* the source range itself
           Loc(5, QueryPath, Rng(1, 0, 1, 2)),     \* ends at the position
           Loc(5, QueryPath, Rng(1, 2, 3, 0)),     \* starts at the position
           Loc(5, QueryPath, Rng(0, 4, 2, 0)),     \* encloses the position's line
           Loc(5, QueryPath, Rng(1, 3, 1, 8)),     \* same line, after the position
           Loc(5, QueryPath, Rng(20, 0, 20, 5)),   \* also a local reference
           Loc(5, "sub/c.go", Rng(1, 0, 1, 5)) >>  \* another file
    ELSE IF id = 7 THEN
        << Loc(7, QueryPath, Rng(1, 0, 1, 5)), Loc(7, "y.go", Rng(4, 0, 4, 1)) >>
    ELSE IF id >= 149 THEN << Loc(id, "z.go", Rng(7, 0, 7, 1)) >>
    ELSE <<>>

Filter(S) == [valid |-> TRUE, ids |-> S]
CorruptFilter == [valid |-> FALSE, ids |-> {}]
Ref(id, f) == [DumpID |-> id, Filter |-> f]

RefRows ==
    { Ref(1, Filter({"a"})), Ref(5, Filter({"b"})), Ref(7, Filter({"a", "b"})),
      Ref(7, Filter({"c"})), Ref(3, CorruptFilter) }

\* more rows than one batch holds; in the second the last row repeats an index
LongScan == [i \in 1..52 |-> Ref(99 + i, Filter({"a"}))]
LongScanRepeat == [i \in 1..51 |-> Ref(IF i = 51 THEN 149 ELSE 99 + i, Filter({"b"}))]
\* in the third the second row's filter holds no moniker of the request
LongScanSparse == [i \in 1..52 |-> Ref(99 + i, Filter(IF i = 2 THEN {"c"} ELSE {"a"}))]

Scans ==
    {<<>>} \cup {<<r>> : r \in RefRows} \cup {<<r, s>> : r, s \in RefRows}
    \cup {LongScan, LongScanRepeat, LongScanSparse}

Monikers == <<"a", "b">>

AdjustedChoices == {<<>>, <<AdjustedOf(5)>>, <<AdjustedOf(5), AdjustedOf(6)>>}

IDsOf(adj) == {adj[i].ID : i \in 1..Len(adj)}

NoMonikers ==
    [monikers : {<<>>}, nilMonikers : BOOLEAN, scan : {<<>>}, defs : {<<>>}]

RemoteData ==
    NoMonikers
    \cup [monikers : {Monikers}, nilMonikers : {FALSE}, scan : Scans,
          defs : {<<>>, <<7>>, <<5, 7, 8>>}]

\* every local shape against a few remote shapes, and every remote shape against
\* a few local shapes
FewRemote ==
    NoMonikers
    \cup {[monikers |-> Monikers, nilMonikers |-> FALSE,
           scan |-> <<Ref(5, Filter({"b"})), Ref(7, Filter({"a", "b"}))>>, defs |-> <<>>]}

FewLocal ==
    {[adjusted |-> <<AdjustedOf(5)>>, localTotal |-> (5 :> 0)],
     [adjusted |-> <<AdjustedOf(5)>>, localTotal |-> (5 :> 2)]}

AllLocal ==
    {[adjusted |-> a, localTotal |-> t] :
        a \in AdjustedChoices, t \in UNION {[IDsOf(b) -> 0..MaxLocal] : b \in AdjustedChoices}}

World(l, r) ==
    [adjusted |-> l.adjusted, localTotal |-> l.localTotal,
     monikers |-> r.monikers, nilMonikers |-> r.nilMonikers, scan |-> r.scan,
     defs |-> r.defs]

\* the monikers are those of the adjusted uploads: without uploads there are none
Worlds ==
    {w \in {World(l, r) : l \in {x \in AllLocal : DOMAIN x.localTotal = IDsOf(x.adjusted)},
                          r \in FewRemote}
            \cup {World(l, r) : l \in FewLocal, r \in RemoteData} :
        w.adjusted = <<>> => w.monikers = <<>>}

\* ----------------------------------------------------------------- cursor
ZeroCursor ==
    [Phase |-> "local", AdjustedUploads |-> Nil, OrderedMonikers |-> Nil,
     DefinitionUploadIDs |-> Nil, LocalBatchOffset |-> 0, LocalOffset |-> 0,
     RemoteBatchOffset |-> 0, RemoteOffset |-> 0, BatchIDs |-> Nil]

EmptyToken == [kind |-> "empty", payload |-> <<>>]
MalformedToken == [kind |-> "malformed", payload |-> <<>>]

\* the token lists the cursor's fields in a fixed order
encodeCursor(c) ==
    [kind |-> "cursor",
     payload |-> << c.Phase, c.AdjustedUploads, c.OrderedMonikers, c.DefinitionUploadIDs,
                    c.LocalBatchOffset, c.LocalOffset, c.RemoteBatchOffset, c.RemoteOffset,
                    c.BatchIDs >>]

decodeCursor(raw) ==
    IF raw.kind = "empty" THEN [err |-> {}, cursor |-> ZeroCursor]
    ELSE IF raw.kind = "cursor" /\ Len(raw.payload) = 9
    THEN [err |-> {},
          cursor |-> [Phase |-> raw.payload[1], AdjustedUploads |-> raw.payload[2],
                      OrderedMonikers |-> raw.payload[3],
                      DefinitionUploadIDs |-> raw.payload[4],
                      LocalBatchOffset |-> raw.payload[5], LocalOffset |-> raw.payload[6],
                      RemoteBatchOffset |-> raw.payload[7], RemoteOffset |-> raw.payload[8],
                      BatchIDs |-> raw.payload[9]]]
    ELSE [err |-> {"invalid cursor"}, cursor |-> ZeroCursor]

\* ------------------------------------------------------ store call records
\* ok is FALSE for the access that failed
Call(op, id, lim, off) == [op |-> op, id |-> id, limit |-> lim, offset |-> off, ok |-> TRUE]
FailedCall(op, id, lim, off) == [Call(op, id, lim, off) EXCEPT !.ok = FALSE]

\* the store accesses a References call can make; fail names the one that fails
\* (its first use), "none" that none does
FailPoints ==
    {"adjustUploads", "orderedMonikers", "definitionUploads", "localSearch", "scan",
     "scanNext", "scanClose", "scanNextAndClose", "getDumps", "commitCheck",
     "monikerLocations", "adjustLocations"}

\* the failure points at which scanner.Next, and at which scanner.Close, fails
NextFails(fail) == fail \in {"scanNext", "scanNextAndClose"}
CloseFails(fail) == fail \in {"scanClose", "scanNextAndClose"}

\* ------------------------------------------------ adjustedUploadsFromCursor
adjustUploads(d) == d.adjusted

\* adjustedUploadsFromCursor dropping the uploads the cache does not hold
adjustedUploadsFromCursorSkipsMissing(d, cache, cursor, fail) ==
    IF cursor.AdjustedUploads.present
    THEN [err |-> {},
          adjusted |-> SelectSeq([i \in 1..Len(cursor.AdjustedUploads.items) |->
                                     [ID |-> cursor.AdjustedUploads.items[i].DumpID,
                                      AdjustedPath |->
                                          cursor.AdjustedUploads.items[i].AdjustedPath,
                                      AdjustedPosition |->
                                          cursor.AdjustedUploads.items[i].AdjustedPosition,
                                      AdjustedPathInBundle |->
                                          cursor.AdjustedUploads.items[i].AdjustedPathInBundle]],
                                 LAMBDA u : u.ID \in cache),
          cursor |-> cursor, calls |-> <<>>]
    ELSE [err |-> {}, adjusted |-> adjustUploads(d),
          cursor |-> [cursor EXCEPT !.AdjustedUploads =
                         Some([i \in 1..Len(adjustUploads(d)) |->
                                 [DumpID |-> adjustUploads(d)[i].ID,
                                  AdjustedPath |-> adjustUploads(d)[i].AdjustedPath,
                                  AdjustedPosition |-> adjustUploads(d)[i].AdjustedPosition,
                                  AdjustedPathInBundle |->
                                      adjustUploads(d)[i].AdjustedPathInBundle]])],
          calls |-> <<Call("adjustUploads", 0, 0, 0)>>]

\* adjustedUploadsFromCursor adjusting the uploads again although the cursor
\* holds them
adjustedUploadsFromCursorRecomputes(d, cache, cursor, fail) ==
    IF cursor.AdjustedUploads.present
       /\ \E i \in 1..Len(cursor.AdjustedUploads.items) :
              cursor.AdjustedUploads.items[i].DumpID \notin cache
    THEN [err |-> {"ErrConcurrentModification"}, adjusted |-> <<>>,
          cursor |-> cursor, calls |-> <<>>]
    ELSE IF fail = "adjustUploads"
    THEN [err |-> {"adjustUploads"}, adjusted |-> <<>>, cursor |-> cursor,
          calls |-> <<FailedCall("adjustUploads", 0, 0, 0)>>]
    ELSE [err |-> {}, adjusted |-> adjustUploads(d),
          cursor |-> [cursor EXCEPT !.AdjustedUploads =
                         Some([i \in 1..Len(adjustUploads(d)) |->
                                 [DumpID |-> adjustUploads(d)[i].ID,
                                  AdjustedPath |-> adjustUploads(d)[i].AdjustedPath,
                                  AdjustedPosition |-> adjustUploads(d)[i].AdjustedPosition,
                                  AdjustedPathInBundle |->
                                      adjustUploads(d)[i].AdjustedPathInBundle]])],
          calls |-> <<Call("adjustUploads", 0, 0, 0)>>]

adjustedUploadsFromCursor(d, cache, cursor, fail) ==
    IF cursor.AdjustedUploads.present
    THEN LET cau == cursor.AdjustedUploads.items
         IN IF \E i \in 1..Len(cau) : cau[i].DumpID \notin cache
            THEN [err |-> {"ErrConcurrentModification"}, adjusted |-> <<>>,
                  cursor |-> cursor, calls |-> <<>>]
            ELSE [err |-> {},
                  adjusted |-> [i \in 1..Len(cau) |->
                                   [ID |-> cau[i].DumpID,
                                    AdjustedPath |-> cau[i].AdjustedPath,
                                    AdjustedPosition |-> cau[i].AdjustedPosition,
                                    AdjustedPathInBundle |-> cau[i].AdjustedPathInBundle]],
                  cursor |-> cursor, calls |-> <<>>]
    ELSE IF fail = "adjustUploads"
    THEN [err |-> {"adjustUploads"}, adjusted |-> <<>>, cursor |-> cursor,
          calls |-> <<FailedCall("adjustUploads", 0, 0, 0)>>]
    ELSE LET au == adjustUploads(d)
         IN [err |-> {}, adjusted |-> au,
             cursor |-> [cursor EXCEPT !.AdjustedUploads =
                            Some([i \in 1..Len(au) |->
                                    [DumpID |-> au[i].ID,
                                     AdjustedPath |-> au[i].AdjustedPath,
                                     AdjustedPosition |-> au[i].AdjustedPosition,
                                     AdjustedPathInBundle |-> au[i].AdjustedPathInBundle]])],
             calls |-> <<Call("adjustUploads", 0, 0, 0)>>]

\* ------------------------------------------------------- orderedMonikers
\* the monikers found, as the slice the resolver returns: a resolver that found
\* none returns either a nil or an empty slice
orderedMonikers(d, adjusted) ==
    IF d.monikers = <<>> /\ d.nilMonikers THEN Nil ELSE Some(d.monikers)

\* -------------------------------------------- definitionUploadIDsFromCursor
definitionUploads(d, monikers) == IF monikers = <<>> THEN <<>> ELSE d.defs

\* definitionUploadIDsFromCursor taking an empty cached list for no cached list
definitionUploadIDsFromCursorEmptyIsAbsent(d, adjusted, monikers, cursor, fail) ==
    IF cursor.DefinitionUploadIDs.present /\ cursor.DefinitionUploadIDs.items # <<>>
    THEN [err |-> {}, ids |-> cursor.DefinitionUploadIDs.items, cursor |-> cursor,
          calls |-> <<>>]
    ELSE IF fail = "definitionUploads"
    THEN [err |-> {"definitionUploads"}, ids |-> <<>>, cursor |-> cursor,
          calls |-> <<FailedCall("definitionUploads", 0, 0, 0)>>]
    ELSE [err |-> {},
          ids |-> SelectSeq(definitionUploads(d, monikers),
                            LAMBDA id : \A j \in 1..Len(adjusted) : adjusted[j].ID # id),
          cursor |-> [cursor EXCEPT !.DefinitionUploadIDs =
                         Some(SelectSeq(definitionUploads(d, monikers),
                                        LAMBDA id : \A j \in 1..Len(adjusted) :
                                                       adjusted[j].ID # id))],
          calls |-> <<Call("definitionUploads", 0, 0, 0)>>]

definitionUploadIDsFromCursor(d, adjusted, monikers, cursor, fail) ==
    IF cursor.DefinitionUploadIDs.present
    THEN [err |-> {}, ids |-> cursor.DefinitionUploadIDs.items, cursor |-> cursor,
          calls |-> <<>>]
    ELSE IF fail = "definitionUploads"
    THEN [err |-> {"definitionUploads"}, ids |-> <<>>, cursor |-> cursor,
          calls |-> <<FailedCall("definitionUploads", 0, 0, 0)>>]
    ELSE LET du == definitionUploads(d, monikers)
             ids == SelectSeq(du, LAMBDA id : \A j \in 1..Len(adjusted) : adjusted[j].ID # id)
         IN [err |-> {}, ids |-> ids,
             cursor |-> [cursor EXCEPT !.DefinitionUploadIDs = Some(ids)],
             calls |-> <<Call("definitionUploads", 0, 0, 0)>>]

\* ---------------------------------------------------- pageLocalReferences
\* lsifStore.References(id, path, line, character, limit, offset)
LocalStore(d, id, lim, off) ==
    [locations |-> Window(LocalLocs(d, AdjustedByID(d, id)), off, lim),
     totalCount |-> d.localTotal[id]]

\* LocalAdvance forgetting to reset LocalOffset when it moves to the next upload
LocalAdvanceKeepsOffset(cursor, n, totalCount) ==
    IF cursor.LocalOffset + n >= totalCount
    THEN [cursor EXCEPT !.LocalOffset = @ + n, !.LocalBatchOffset = @ + 1]
    ELSE [cursor EXCEPT !.LocalOffset = @ + n]

\* the cursor after one upload's query returned n locations of totalCount
LocalAdvance(cursor, n, totalCount) ==
    IF cursor.LocalOffset + n >= totalCount
    THEN [cursor EXCEPT !.LocalOffset = 0, !.LocalBatchOffset = @ + 1]
    ELSE [cursor EXCEPT !.LocalOffset = @ + n]

\* one iteration of the loop: the query of upload id returned r (or failed)
LocalStep(st, id, lim, fail, r) ==
    IF fail = "localSearch"
    THEN [st EXCEPT !.err = {"localSearch"},
                    !.calls = Append(@, FailedCall("localSearch", id,
                                                   lim - Len(st.locations),
                                                   st.cursor.LocalOffset))]
    ELSE [st EXCEPT !.cursor = LocalAdvance(@, Len(r.locations), r.totalCount),
                    !.locations = @ \o r.locations,
                    !.calls = Append(@, Call("localSearch", id, lim - Len(st.locations),
                                             st.cursor.LocalOffset))]

\* LocalLoop asking every upload for a whole page
RECURSIVE LocalLoopAsksFullLimit(_, _, _, _, _, _)
LocalLoopAsksFullLimit(d, adjusted, i, st, lim, fail) ==
    IF i > Len(adjusted) \/ Len(st.locations) >= lim \/ st.err # {}
    THEN st
    ELSE LocalLoopAsksFullLimit(d, adjusted, i + 1,
                                LocalStep(st, adjusted[i].ID, lim, fail,
                                          LocalStore(d, adjusted[i].ID, lim,
                                                     st.cursor.LocalOffset)),
                                lim, fail)

\* the loop over adjustedUploads[cursor.LocalBatchOffset:], at its i-th upload
RECURSIVE LocalLoop(_, _, _, _, _, _)
LocalLoop(d, adjusted, i, st, lim, fail) ==
    IF i > Len(adjusted) \/ Len(st.locations) >= lim \/ st.err # {}
    THEN st
    ELSE LocalLoop(d, adjusted, i + 1,
                   LocalStep(st, adjusted[i].ID, lim, fail,
                             LocalStore(d, adjusted[i].ID, lim - Len(st.locations),
                                        st.cursor.LocalOffset)),
                   lim, fail)

\* LocalHasMore with an off-by-one comparison
LocalHasMoreInclusive(cursor, adjusted) == cursor.LocalBatchOffset <= Len(adjusted)

LocalHasMore(cursor, adjusted) == cursor.LocalBatchOffset < Len(adjusted)

LocalResult(adjusted, st) ==
    [err |-> st.err, cursor |-> st.cursor,
     locations |-> IF st.err = {} THEN st.locations ELSE <<>>,
     hasMore |-> st.err = {} /\ LocalHasMore(st.cursor, adjusted),
     calls |-> st.calls]

pageLocalReferences(d, adjusted, cursor, lim, fail) ==
    LocalResult(adjusted,
                LocalLoop(d, adjusted, cursor.LocalBatchOffset + 1,
                          [err |-> {}, cursor |-> cursor, locations |-> <<>>,
                           calls |-> <<>>],
                          lim, fail))

\* ------------------------------------------------ uploadIDsWithReferences
\* dbStore.ReferenceIDsAndFilters(repository, commit, monikers, limit, offset)
ReferenceIDsAndFilters(d, monikers, lim, off) ==
    [rows |-> Window(IF monikers = <<>> THEN <<>> ELSE d.scan, off, lim),
     totalCount |-> IF monikers = <<>> THEN 0 ELSE Len(d.scan)]

testFilter(filter, monikers) ==
    [err |-> IF filter.valid THEN {} ELSE {"bloomfilter.Decode"},
     ok |-> filter.valid /\ \E i \in 1..Len(monikers) : monikers[i] \in filter.ids]

\* for id := range ignoreIDs: the keys of the map are the slice's indexes
IgnoreIDsMap(ignoreIDs) == 0..(Len(ignoreIDs) - 1)

\* one iteration of the loop: row was read as the k-th record
ScanStep(st, k, row, ignore, t) ==
    IF row.DumpID \in st.filtered \/ row.DumpID \in ignore
    THEN [st EXCEPT !.recordsScanned = k]
    ELSE IF t.err # {} THEN [st EXCEPT !.recordsScanned = k, !.err = t.err]
    ELSE IF t.ok THEN [st EXCEPT !.recordsScanned = k, !.filtered = @ \cup {row.DumpID}]
    ELSE [st EXCEPT !.recordsScanned = k]

\* the loop over scanner.Next(), about to read row k
RECURSIVE ScanLoop(_, _, _, _, _, _, _)
ScanLoop(rows, k, monikers, ignore, lim, st, fail) ==
    IF Cardinality(st.filtered) >= lim \/ st.err # {} THEN st
    ELSE IF NextFails(fail) THEN [st EXCEPT !.err = {"scanNext"}]
    ELSE IF k > Len(rows) THEN st
    ELSE ScanLoop(rows, k + 1, monikers, ignore, lim,
                  ScanStep(st, k, rows[k], ignore, testFilter(rows[k].Filter, monikers)),
                  fail)

\* the deferred scanner.Close(): a failure is appended to the error in flight
\* CloseScanner returning the close failure in place of the error in flight
CloseScannerOverwrites(err, fail) == IF CloseFails(fail) THEN {"scanClose"} ELSE err

CloseScanner(err, fail) == IF CloseFails(fail) THEN err \cup {"scanClose"} ELSE err

ScanCalls(lim, off, fail) ==
    << Call("scan", 0, lim, off),
       IF CloseFails(fail) THEN FailedCall("scanClose", 0, 0, 0)
       ELSE Call("scanClose", 0, 0, 0) >>

\* ScanResult closing the scanner only when the loop ended without an error
ScanResultLeavesOpenOnError(totalCount, st, lim, off, fail) ==
    IF st.err # {}
    THEN [err |-> st.err, ids |-> <<>>, recordsScanned |-> 0,
          totalCount |-> 0, calls |-> <<Call("scan", 0, lim, off)>>]
    ELSE [err |-> CloseScanner({}, fail), ids |-> SortedSeq(st.filtered),
          recordsScanned |-> st.recordsScanned, totalCount |-> totalCount,
          calls |-> ScanCalls(lim, off, fail)]

\* ScanResult returning the matching IDs without sorting them, in the order a
\* map iteration may yield: descending
ScanResultUnsorted(totalCount, st, lim, off, fail) ==
    IF st.err # {}
    THEN [err |-> CloseScanner(st.err, fail), ids |-> <<>>, recordsScanned |-> 0,
          totalCount |-> 0, calls |-> ScanCalls(lim, off, fail)]
    ELSE LET up == SortedSeq(st.filtered)
         IN [err |-> CloseScanner({}, fail),
             ids |-> [i \in 1..Len(up) |-> up[Len(up) + 1 - i]],
             recordsScanned |-> st.recordsScanned, totalCount |-> totalCount,
             calls |-> ScanCalls(lim, off, fail)]

\* what uploadIDsWithReferences returns once the loop has ended in st
ScanResult(totalCount, st, lim, off, fail) ==
    IF st.err # {}
    THEN [err |-> CloseScanner(st.err, fail), ids |-> <<>>, recordsScanned |-> 0,
          totalCount |-> 0, calls |-> ScanCalls(lim, off, fail)]
    ELSE [err |-> CloseScanner({}, fail), ids |-> SortedSeq(st.filtered),
          recordsScanned |-> st.recordsScanned, totalCount |-> totalCount,
          calls |-> ScanCalls(lim, off, fail)]

uploadIDsWithReferences(d, monikers, ignoreIDs, lim, off, fail) ==
    IF fail = "scan"
    THEN [err |-> {"scan"}, ids |-> <<>>, recordsScanned |-> 0, totalCount |-> 0,
          calls |-> <<FailedCall("scan", 0, lim, off)>>]
    ELSE ScanResult(ReferenceIDsAndFilters(d, monikers, lim, off).totalCount,
                    ScanLoop(ReferenceIDsAndFilters(d, monikers, lim, off).rows, 1,
                             monikers, IgnoreIDsMap(ignoreIDs), lim,
                             [err |-> {}, filtered |-> {}, recordsScanned |-> 0], fail),
                    lim, off, fail)

\* ------------------------------------------------------------ uploadsByIDs
GetDumpsByIDs(d, ids) == ids

\* Hydrated returning the fetched uploads without the cached ones
HydratedOnlyFetched(cache, existingUploads, uploads, fail) ==
    IF fail = "commitCheck" /\ uploads # <<>>
    THEN [err |-> {}, uploads |-> <<>>, cache |-> cache,
          calls |-> <<Call("getDumps", 0, 0, 0), FailedCall("commitCheck", 0, 0, 0)>>]
    ELSE [err |-> {}, uploads |-> uploads,
          cache |-> cache \cup Range(uploads),
          calls |-> IF uploads # <<>>
                    THEN <<Call("getDumps", 0, 0, 0), Call("commitCheck", 0, 0, 0)>>
                    ELSE <<Call("getDumps", 0, 0, 0)>>]

\* the uploads of the store went through filterUploadsWithCommits
Hydrated(cache, existingUploads, uploads, fail) ==
    IF fail = "commitCheck" /\ uploads # <<>>
    \* return nil, nil
    THEN [err |-> {}, uploads |-> <<>>, cache |-> cache,
          calls |-> <<Call("getDumps", 0, 0, 0), FailedCall("commitCheck", 0, 0, 0)>>]
    ELSE [err |-> {}, uploads |-> existingUploads \o uploads,
          cache |-> cache \cup Range(uploads),
          calls |-> IF uploads # <<>>
                    THEN <<Call("getDumps", 0, 0, 0), Call("commitCheck", 0, 0, 0)>>
                    ELSE <<Call("getDumps", 0, 0, 0)>>]

uploadsByIDs(d, cache, ids, fail) ==
    IF fail = "getDumps"
    THEN [err |-> {"getDumps"}, uploads |-> <<>>, cache |-> cache,
          calls |-> <<FailedCall("getDumps", 0, 0, 0)>>]
    ELSE Hydrated(cache, SelectSeq(ids, LAMBDA id : id \in cache),
                  GetDumpsByIDs(d, SelectSeq(ids, LAMBDA id : id \notin cache)), fail)

\* --------------------------------------------------------- monikerLocations
AllMonikerLocs(ids) == Flatten([i \in 1..Len(ids) |-> MonikerLocs(ids[i])])

monikerLocations(d, uploads, monikers, lim, off) ==
    [locations |-> Window(AllMonikerLocs(SortedSeq(Range(uploads))), off, lim),
     totalCount |-> Len(AllMonikerLocs(SortedSeq(Range(uploads))))]

\* ------------------------------------------------------- isSourceLocation
\* rangeContainsPosition with an exclusive end
rangeContainsPositionExclusiveEnd(r, pos) ==
    IF pos.Line < r.Start.Line THEN FALSE
    ELSE IF pos.Line > r.End.Line THEN FALSE
    ELSE IF pos.Line = r.Start.Line /\ pos.Character < r.Start.Character THEN FALSE
    ELSE IF pos.Line = r.End.Line /\ pos.Character >= r.End.Character THEN FALSE
    ELSE TRUE

\* rangeContainsPosition comparing the characters on every line of the range
rangeContainsPositionAnyLine(r, pos) ==
    IF pos.Line < r.Start.Line THEN FALSE
    ELSE IF pos.Line > r.End.Line THEN FALSE
    ELSE IF pos.Character < r.Start.Character THEN FALSE
    ELSE IF pos.Character > r.End.Character THEN FALSE
    ELSE TRUE

rangeContainsPosition(r, pos) ==
    IF pos.Line < r.Start.Line THEN FALSE
    ELSE IF pos.Line > r.End.Line THEN FALSE
    ELSE IF pos.Line = r.Start.Line /\ pos.Character < r.Start.Character THEN FALSE
    ELSE IF pos.Line = r.End.Line /\ pos.Character > r.End.Character THEN FALSE
    ELSE TRUE

isSourceLocation(adjusted, location) ==
    \E i \in 1..Len(adjusted) :
        /\ location.DumpID = adjusted[i].ID
        /\ location.Path = adjusted[i].AdjustedPath
        /\ rangeContainsPosition(location.Range, adjusted[i].AdjustedPosition)

\* --------------------------------------------------- pageRemoteReferences
\* BatchAdvance taking the scan for exhausted only once it read no record
BatchAdvanceExhaustedOnEmptyRead(cursor, ids, recordsScanned, totalCount) ==
    [cursor EXCEPT !.BatchIDs = Some(ids),
                   !.RemoteBatchOffset = IF recordsScanned = 0 THEN -1
                                         ELSE @ + recordsScanned]

\* the cursor after a batch acquisition read recordsScanned of totalCount rows
BatchAdvance(cursor, ids, recordsScanned, totalCount) ==
    [cursor EXCEPT !.BatchIDs = Some(ids),
                   !.RemoteBatchOffset = IF @ + recordsScanned >= totalCount THEN -1
                                         ELSE @ + recordsScanned]

\* what one batch acquisition read and how it left RemoteBatchOffset
Batch(offset, r, after) ==
    [ids |-> r.ids, offset |-> offset, recordsScanned |-> r.recordsScanned,
     totalCount |-> r.totalCount, after |-> after]

\* one iteration of the acquisition loop: uploadIDsWithReferences returned r
AcquireStep(st, r) ==
    IF r.err # {} THEN [st EXCEPT !.err = r.err, !.calls = @ \o r.calls]
    ELSE [st EXCEPT !.cursor = BatchAdvance(@, r.ids, r.recordsScanned, r.totalCount),
                    !.calls = @ \o r.calls,
                    !.batches =
                        Append(@, Batch(st.cursor.RemoteBatchOffset, r,
                                        BatchAdvance(st.cursor, r.ids, r.recordsScanned,
                                                     r.totalCount).RemoteBatchOffset))]

\* for len(cursor.BatchIDs) == 0 { ... }; exhausted is the early return inside it
RECURSIVE AcquireBatch(_, _, _, _, _)
AcquireBatch(d, monikers, definitionUploadIDs, st, fail) ==
    IF Len(st.cursor.BatchIDs.items) # 0 \/ st.err # {} THEN st
    ELSE IF st.cursor.RemoteBatchOffset < 0 THEN [st EXCEPT !.exhausted = TRUE]
    ELSE AcquireBatch(d, monikers, definitionUploadIDs,
             AcquireStep(st, uploadIDsWithReferences(d, monikers, definitionUploadIDs,
                                                     maximumIndexesPerMonikerSearch,
                                                     st.cursor.RemoteBatchOffset, fail)),
             fail)

\* RemoteAdvance clearing the batch without resetting RemoteOffset
RemoteAdvanceKeepsOffset(cursor, n, totalCount) ==
    IF cursor.RemoteOffset + n >= totalCount
    THEN [cursor EXCEPT !.RemoteOffset = @ + n, !.BatchIDs = Nil]
    ELSE [cursor EXCEPT !.RemoteOffset = @ + n]

\* the cursor after a moniker search returned n locations of totalCount
RemoteAdvance(cursor, n, totalCount) ==
    IF cursor.RemoteOffset + n >= totalCount
    THEN [cursor EXCEPT !.RemoteOffset = 0, !.BatchIDs = Nil]
    ELSE [cursor EXCEPT !.RemoteOffset = @ + n]

\* RemoteHasMore looking at the queued batch only
RemoteHasMoreBatchOnly(cursor) == Len(cursor.BatchIDs.items) > 0

RemoteHasMore(cursor) == Len(cursor.BatchIDs.items) > 0 \/ cursor.RemoteBatchOffset >= 0

\* what one call of pageRemoteReferences did: the BatchIDs it had after the
\* acquisition loop, the uploads it searched, what the store returned and what
\* the post-filter kept, and the cursor and hasMore it returned
Step(search, batch, uploads, cache, offset, returned, kept, totalCount, cursor, hasMore) ==
    [search |-> search, batch |-> batch, uploads |-> uploads, cache |-> cache,
     offset |-> offset, returned |-> returned, kept |-> kept, totalCount |-> totalCount,
     cursor |-> cursor, hasMore |-> hasMore]

\* pageRemoteReferences returning without a moniker search
RemoteNone(a, err, cache, calls) ==
    [err |-> err, cursor |-> a.cursor, cache |-> cache, locations |-> <<>>,
     hasMore |-> FALSE, calls |-> a.calls \o calls, batches |-> a.batches,
     searched |-> <<>>,
     steps |-> <<Step(FALSE, a.cursor.BatchIDs.items, <<>>, cache, a.cursor.RemoteOffset,
                      0, 0, 0, a.cursor, FALSE)>>]

\* the moniker search over the hydrated uploads h returned m
RemoteFiltered(adjusted, lim, a, h, m) ==
    [err |-> {},
     cursor |-> RemoteAdvance(a.cursor, Len(m.locations), m.totalCount),
     cache |-> h.cache,
     locations |-> SelectSeq(m.locations, LAMBDA l : ~isSourceLocation(adjusted, l)),
     hasMore |-> RemoteHasMore(RemoteAdvance(a.cursor, Len(m.locations), m.totalCount)),
     calls |-> a.calls \o h.calls
               \o <<Call("monikerLocations", 0, lim, a.cursor.RemoteOffset)>>,
     batches |-> a.batches,
     searched |-> <<h.uploads>>,
     steps |-> <<Step(TRUE, a.cursor.BatchIDs.items, h.uploads, h.cache,
                      a.cursor.RemoteOffset, Len(m.locations),
                      Len(SelectSeq(m.locations, LAMBDA l : ~isSourceLocation(adjusted, l))),
                      m.totalCount,
                      RemoteAdvance(a.cursor, Len(m.locations), m.totalCount),
                      RemoteHasMore(RemoteAdvance(a.cursor, Len(m.locations),
                                                  m.totalCount)))>>]

\* uploadsByIDs returned h
RemoteHydrated(d, adjusted, monikers, lim, fail, a, h) ==
    IF h.err # {} THEN RemoteNone(a, h.err, h.cache, h.calls)
    ELSE IF fail = "monikerLocations"
    THEN RemoteNone(a, {"monikerLocations"}, h.cache,
                    Append(h.calls, FailedCall("monikerLocations", 0, lim,
                                               a.cursor.RemoteOffset)))
    ELSE RemoteFiltered(adjusted, lim, a, h,
                        monikerLocations(d, h.uploads, monikers, lim,
                                         a.cursor.RemoteOffset))

\* the acquisition loop ended in a
RemoteSearch(d, adjusted, monikers, cache, lim, fail, a) ==
    IF a.err # {} \/ a.exhausted THEN RemoteNone(a, a.err, cache, <<>>)
    ELSE RemoteHydrated(d, adjusted, monikers, lim, fail, a,
                        uploadsByIDs(d, cache, a.cursor.BatchIDs.items, fail))

pageRemoteReferences(d, adjusted, monikers, definitionUploadIDs, cursor, cache, lim, fail) ==
    RemoteSearch(d, adjusted, monikers, cache, lim, fail,
                 AcquireBatch(d, monikers, definitionUploadIDs,
                              [err |-> {}, cursor |-> cursor, calls |-> <<>>,
                               batches |-> <<>>, exhausted |-> FALSE],
                              fail))

\* --------------------------------------------------------- adjustLocations
\* upload 6 is pinned one line below the target commit; the others at the target
AdjustLocation(l) ==
    IF l.DumpID = 6
    THEN [l EXCEPT !.Range.Start.Line = @ - 1, !.Range.End.Line = @ - 1]
    ELSE l

Mappable(locations) ==
    SelectSeq(locations, LAMBDA l : l.DumpID # 6 \/ l.Range.Start.Line >= 1)

adjustLocations(locations) ==
    [i \in 1..Len(Mappable(locations)) |-> AdjustLocation(Mappable(locations)[i])]

\* -------------------------------------------------------------- References
\* RemoteStep sending an exhausted request back to phase 1
RemoteStepRestarts(st, r) ==
    [st EXCEPT !.err = r.err,
               !.cursor = IF r.err = {} /\ ~r.hasMore
                          THEN [r.cursor EXCEPT !.Phase = "local"] ELSE r.cursor,
               !.cache = r.cache,
               !.locations = @ \o r.locations,
               !.calls = @ \o r.calls,
               !.batches = @ \o r.batches,
               !.searched = @ \o r.searched,
               !.steps = @ \o r.steps,
               !.stop = r.err = {} /\ ~r.hasMore]

\* one iteration of the remote loop: pageRemoteReferences returned r
RemoteStep(st, r) ==
    [st EXCEPT !.err = r.err,
               !.cursor = IF r.err = {} /\ ~r.hasMore
                          THEN [r.cursor EXCEPT !.Phase = "done"] ELSE r.cursor,
               !.cache = r.cache,
               !.locations = @ \o r.locations,
               !.calls = @ \o r.calls,
               !.batches = @ \o r.batches,
               !.searched = @ \o r.searched,
               !.steps = @ \o r.steps,
               !.stop = r.err = {} /\ ~r.hasMore]

\* for len(locations) < limit { pageRemoteReferences ... }; stop is its break
RECURSIVE RemoteLoop(_, _, _, _, _, _, _)
RemoteLoop(d, adjusted, monikers, definitionUploadIDs, st, lim, fail) ==
    IF Len(st.locations) >= lim \/ st.err # {} \/ st.stop THEN st
    ELSE RemoteLoop(d, adjusted, monikers, definitionUploadIDs,
                    RemoteStep(st, pageRemoteReferences(d, adjusted, monikers,
                                                        definitionUploadIDs, st.cursor,
                                                        st.cache,
                                                        lim - Len(st.locations), fail)),
                    lim, fail)

\* what a References call that fails returns
Failure(err, cache, calls) ==
    [err |-> err, locations |-> <<>>, nextCursor |-> EmptyToken, cursor |-> ZeroCursor,
     cache |-> cache, calls |-> calls, local |-> <<>>, remote |-> <<>>,
     localCalled |-> FALSE, localHasMore |-> FALSE, localCursor |-> ZeroCursor,
     batches |-> <<>>, searched |-> <<>>, steps |-> <<>>]

\* NextCursor encoding the cursor only while phase 1 lasts
NextCursorOnlyLocal(cursor) ==
    IF cursor.Phase = "local" THEN encodeCursor(cursor) ELSE EmptyToken

\* NextCursor encoding the cursor also when the phase is done
NextCursorAlways(cursor) == encodeCursor(cursor)

NextCursor(cursor) == IF cursor.Phase # "done" THEN encodeCursor(cursor) ELSE EmptyToken

\* the end of References: the phases collected rp, of which lp is the local part
Assemble(cursor, lp, rp, fail) ==
    IF rp.err # {} THEN Failure(rp.err, rp.cache, rp.calls)
    ELSE IF fail = "adjustLocations" /\ rp.locations # <<>>
    THEN Failure({"adjustLocations"}, rp.cache,
                 Append(rp.calls, FailedCall("adjustLocations", 0, 0, 0)))
    ELSE [err |-> {}, locations |-> adjustLocations(rp.locations),
          nextCursor |-> NextCursor(rp.cursor), cursor |-> rp.cursor,
          cache |-> rp.cache, calls |-> rp.calls,
          local |-> lp.locations,
          remote |-> SubSeq(rp.locations, Len(lp.locations) + 1, Len(rp.locations)),
          localCalled |-> cursor.Phase = "local",
          localHasMore |-> lp.hasMore, localCursor |-> lp.cursor,
          batches |-> rp.batches, searched |-> rp.searched, steps |-> rp.steps]

\* AfterLocal moving to phase 2 whatever hasMore says
AfterLocalAlwaysRemote(cursor, cache, calls, lp) ==
    [err |-> {},
     cursor |-> IF cursor.Phase = "local"
                THEN [lp.cursor EXCEPT !.Phase = "remote"] ELSE lp.cursor,
     cache |-> cache, locations |-> lp.locations, calls |-> calls \o lp.calls,
     batches |-> <<>>, searched |-> <<>>, steps |-> <<>>, stop |-> FALSE]

\* the state of References after phase 1 returned lp
AfterLocal(cursor, cache, calls, lp) ==
    [err |-> {},
     cursor |-> IF cursor.Phase = "local" /\ ~lp.hasMore
                THEN [lp.cursor EXCEPT !.Phase = "remote"] ELSE lp.cursor,
     cache |-> cache, locations |-> lp.locations, calls |-> calls \o lp.calls,
     batches |-> <<>>, searched |-> <<>>, steps |-> <<>>, stop |-> FALSE]

\* Phase2 left to the next page
Phase2Deferred(d, adjusted, definitionUploadIDs, st, lim, fail) == st

\* phase 2, entered in state st
Phase2(d, adjusted, definitionUploadIDs, st, lim, fail) ==
    IF st.cursor.Phase = "remote"
    THEN RemoteLoop(d, adjusted, st.cursor.OrderedMonikers.items, definitionUploadIDs,
                    st, lim, fail)
    ELSE st

Phase1Done(d, adjusted, definitionUploadIDs, cursor, cache, lim, fail, calls, lp) ==
    IF lp.err # {} THEN Failure(lp.err, cache, calls \o lp.calls)
    ELSE Assemble(cursor, lp,
                  Phase2(d, adjusted, definitionUploadIDs,
                         AfterLocal(cursor, cache, calls, lp), lim, fail),
                  fail)

\* the part of References after the cursor's cached data is in place
Phases(d, adjusted, definitionUploadIDs, cursor, cache, lim, fail, calls) ==
    Phase1Done(d, adjusted, definitionUploadIDs, cursor, cache, lim, fail, calls,
               IF cursor.Phase = "local"
               THEN pageLocalReferences(d, adjusted, cursor, lim, fail)
               ELSE [err |-> {}, cursor |-> cursor, locations |-> <<>>, hasMore |-> TRUE,
                     calls |-> <<>>])

WithDefinitions(d, adjusted, cache, lim, fail, calls, du) ==
    IF du.err # {} THEN Failure(du.err, cache, calls \o du.calls)
    ELSE Phases(d, adjusted, du.ids, du.cursor, cache, lim, fail, calls \o du.calls)

\* if cursor.OrderedMonikers == nil { cursor.OrderedMonikers = r.orderedMonikers(...) }
WithMonikers(d, cursor, adjusted) ==
    IF cursor.OrderedMonikers.present THEN cursor
    ELSE [cursor EXCEPT !.OrderedMonikers = orderedMonikers(d, adjusted)]

WithAdjusted(d, cache, lim, fail, a) ==
    IF a.err # {} THEN Failure(a.err, cache, a.calls)
    ELSE IF ~a.cursor.OrderedMonikers.present /\ fail = "orderedMonikers"
    THEN Failure({"orderedMonikers"}, cache,
                 Append(a.calls, FailedCall("orderedMonikers", 0, 0, 0)))
    ELSE WithDefinitions(d, a.adjusted, cache, lim, fail,
             IF a.cursor.OrderedMonikers.present THEN a.calls
             ELSE Append(a.calls, Call("orderedMonikers", 0, 0, 0)),
             definitionUploadIDsFromCursor(d, a.adjusted,
                 WithMonikers(d, a.cursor, a.adjusted).OrderedMonikers.items,
                 WithMonikers(d, a.cursor, a.adjusted), fail))

\* Decoded without the check of the decoding error
DecodedIgnoresError(d, cache, lim, fail, dec) ==
    WithAdjusted(d, cache, lim, fail, adjustedUploadsFromCursor(d, cache, dec.cursor, fail))

Decoded(d, cache, lim, fail, dec) ==
    IF dec.err # {} THEN Failure(dec.err, cache, <<>>)
    ELSE WithAdjusted(d, cache, lim, fail,
                      adjustedUploadsFromCursor(d, cache, dec.cursor, fail))

ReferencesCall(d, cache, rawCursor, lim, fail) ==
    Decoded(d, cache, lim, fail, decodeCursor(rawCursor))

\* ------------------------------------------------------------ state machine
NoProbe == [made |-> FALSE, range |-> Rng(0, 0, 0, 0), pos |-> Pos(0, 0), contains |-> FALSE]

NoAgain == [made |-> FALSE, cache |-> {}, locations |-> <<>>, nextCursor |-> EmptyToken,
            err |-> {}]

NoPage ==
    [submitted |-> EmptyToken, fail |-> "none", startPhase |-> "local", calls |-> <<>>,
     adjusted |-> <<>>,
     local |-> <<>>, remote |-> <<>>, localCalled |-> FALSE, localHasMore |-> FALSE,
     localCursor |-> ZeroCursor, batches |-> <<>>, searched |-> <<>>, steps |-> <<>>]

Init ==
    /\ db \in Worlds
    /\ limit \in 1..MaxLimit
    /\ token = EmptyToken
    /\ uploadCache = IDsOf(db.adjusted)
    /\ result = [locations |-> <<>>, nextCursor |-> EmptyToken, err |-> {}]
    /\ cur = ZeroCursor
    /\ status = "fresh"
    /\ pages = <<>>
    /\ localPages = <<>>
    /\ failed = {}
    /\ page = NoPage
    /\ searchedIDs = {}
    /\ again = NoAgain
    /\ probe = NoProbe

\* the caller receives r from References(rawCursor)
Return(rawCursor, fail, r) ==
    /\ result' = [locations |-> r.locations, nextCursor |-> r.nextCursor, err |-> r.err]
    /\ uploadCache' = r.cache
    /\ token' = IF r.err = {} THEN r.nextCursor ELSE token
    /\ cur' = IF r.err = {} THEN r.cursor ELSE cur
    /\ status' = IF r.err # {} THEN "failed"
                 ELSE IF r.nextCursor = EmptyToken THEN "done" ELSE "paging"
    /\ pages' = pages \o r.locations
    /\ localPages' = localPages \o r.local
    /\ failed' = failed \cup {r.calls[k].op : k \in {j \in 1..Len(r.calls) : ~r.calls[j].ok}}
    /\ searchedIDs' = searchedIDs \cup UNION {Range(r.searched[k]) : k \in 1..Len(r.searched)}
    /\ again' = NoAgain
    /\ page' = [submitted |-> rawCursor, fail |-> fail, startPhase |-> cur.Phase,
                calls |-> r.calls,
                adjusted |-> adjustedUploadsFromCursor(db, uploadCache,
                                                       decodeCursor(rawCursor).cursor,
                                                       fail).adjusted,
                local |-> r.local, remote |-> r.remote,
                localCalled |-> r.localCalled, localHasMore |-> r.localHasMore,
                localCursor |-> r.localCursor, batches |-> r.batches,
                searched |-> r.searched, steps |-> r.steps]

\* the caller receives r from the second References(page.submitted)
Resubmitted(cache, r) ==
    /\ again' = [made |-> TRUE, cache |-> cache, locations |-> r.locations,
                 nextCursor |-> r.nextCursor, err |-> r.err]
    /\ uploadCache' = r.cache

\* One call of References with the continuation token the caller holds (or with
\* a token that does not decode).  A caller feeds a returned cursor back until it
\* is empty, and gives up on an error.
References(rawCursor, fail) ==
    /\ status \in {"fresh", "paging"}
    /\ Return(rawCursor, fail, ReferencesCall(db, uploadCache, rawCursor, limit, fail))
    /\ UNCHANGED <<db, limit, probe>>

\* The next page is served by a resolver built after an adjusted upload stopped
\* being visible: its upload cache no longer holds that upload.
NewResolver(gone) ==
    /\ status = "paging"
    /\ gone \in uploadCache
    /\ IDsOf(db.adjusted) \subseteq uploadCache
    /\ uploadCache' = IDsOf(db.adjusted) \ {gone}
    /\ UNCHANGED <<db, limit, token, result, cur, status, pages, localPages, failed, page,
                   searchedIDs, again, probe>>

\* The caller submits the token of the page it just received a second time, to
\* the same resolver or to a new one whose upload cache holds only the visible
\* uploads the resolver had.
Resubmit(fresh) ==
    /\ status \in {"paging", "done"}
    /\ ~again.made
    /\ LET cache == IF fresh THEN uploadCache \cap IDsOf(db.adjusted) ELSE uploadCache
       IN Resubmitted(cache, ReferencesCall(db, cache, page.submitted, limit, "none"))
    /\ UNCHANGED <<db, limit, token, result, cur, status, pages, localPages, failed, page,
                   searchedIDs, probe>>

Next ==
    \/ \E rawCursor \in {token, MalformedToken}, fail \in FailPoints \cup {"none"} :
          References(rawCursor, fail)
    \/ \E gone \in IDsOf(db.adjusted) : NewResolver(gone)
    \/ \E fresh \in BOOLEAN : Resubmit(fresh)

Spec == Init /\ [][Next]_vars

\* ------------------------------------------------- pagination to the end
\* The caller keeps feeding the cursor it received back into References, the
\* stores do not change and no store access fails.
Paginate == References(token, "none")

NextPaginate == Paginate

\* the stores hold no bloom filter that fails to decode
InitPaginate == Init /\ \A k \in 1..Len(db.scan) : db.scan[k].Filter.valid

\* the caller holds no result yet, or holds a cursor to feed back
Pending == status \in {"fresh", "paging"}

\* Weak fairness of Paginate, WF_vars(Paginate), with ENABLED <<Paginate>>_vars
\* written out as Pending: Paginate is enabled exactly while Pending holds, and
\* PaginateChanges shows that its step then changes the state.
PaginateFair == []<>(~Pending) \/ []<><<Paginate>>_vars

SpecPaginate == InitPaginate /\ [][NextPaginate]_vars /\ PaginateFair

\* ------------------------------------------- rangeContainsPosition on its own
Positions == [Line : 0..MaxLine, Character : 0..MaxCharacter]
Ranges == [Start : Positions, End : Positions]

\* no request is in progress
InitProbe ==
    /\ db = World([adjusted |-> <<>>, localTotal |-> <<>>],
                  [monikers |-> <<>>, nilMonikers |-> FALSE, scan |-> <<>>, defs |-> <<>>])
    /\ limit = 1
    /\ token = EmptyToken
    /\ uploadCache = {}
    /\ result = [locations |-> <<>>, nextCursor |-> EmptyToken, err |-> {}]
    /\ cur = ZeroCursor
    /\ status = "fresh"
    /\ pages = <<>>
    /\ localPages = <<>>
    /\ failed = {}
    /\ page = NoPage
    /\ searchedIDs = {}
    /\ again = NoAgain
    /\ probe = NoProbe

ContainsCall(r, pos) ==
    /\ probe' = [made |-> TRUE, range |-> r, pos |-> pos,
                 contains |-> rangeContainsPosition(r, pos)]
    /\ UNCHANGED <<db, limit, token, uploadCache, result, cur, status, pages, localPages,
                   failed, page, searchedIDs, again>>

NextProbe == \E r \in Ranges, pos \in Positions : ContainsCall(r, pos)

SpecProbe == InitProbe /\ [][NextProbe]_vars

\* ================================================================== claims
LexLE(p, q) == p.Line < q.Line \/ (p.Line = q.Line /\ p.Character <= q.Character)

CursorAdjusted == cur.AdjustedUploads.items

\* a page was returned without error
Returned == page # NoPage /\ result.err = {}

\* the request was paginated to the empty cursor and no store access failed
Completed == status = "done" /\ failed = {}

\* the local result lists of the adjusted uploads, in AdjustedUploads order
FullLocal == Flatten([i \in 1..Len(db.adjusted) |-> LocalLocs(db, db.adjusted[i])])

\* C1: paginating one request from the empty cursor with unchanged store data
\* returns no (DumpID, path, range) triple in two positions of the concatenated
\* pages.
C1_NoDuplicateTriples ==
    \A i, j \in 1..Len(pages) : i # j => pages[i] # pages[j]

\* the scan rows whose filter holds the identifier of an ordered moniker
PositiveRows ==
    {i \in 1..Len(db.scan) :
        /\ db.scan[i].Filter.valid
        /\ \E m \in 1..Len(db.monikers) : db.monikers[m] \in db.scan[i].Filter.ids}

\* a location of the visible uploads that encloses the query position
SourceLocation(l) ==
    \E i \in 1..Len(db.adjusted) :
        /\ l.DumpID = db.adjusted[i].ID
        /\ l.Path = db.adjusted[i].AdjustedPath
        /\ LexLE(l.Range.Start, db.adjusted[i].AdjustedPosition)
        /\ LexLE(db.adjusted[i].AdjustedPosition, l.Range.End)

\* C2: once a request is paginated to completion with unchanged store data, every
\* local location of every adjusted upload, and every moniker-search location of
\* every candidate index whose bloom filter holds an ordered moniker identifier
\* (source locations excepted), is in some returned page.
C2_EveryLocationReturned ==
    Completed =>
        /\ Range(adjustLocations(FullLocal)) \subseteq Range(pages)
        /\ \A i \in PositiveRows :
              \A l \in Range(MonikerLocs(db.scan[i].DumpID)) :
                  ~SourceLocation(l) => l \in Range(pages)

\* the number of local locations returned before the last page
LocalBefore == Len(localPages) - Len(page.local)

\* the locations of upload id among the first n of FullLocal
ReturnedOf(id, n) == Cardinality({k \in 1..n : FullLocal[k].DumpID = id})

\* C3: the phase 1 contributions of the pages, concatenated, are the local result
\* lists of the adjusted uploads in AdjustedUploads order; each page takes the next
\* limit locations of that sequence, across upload boundaries; and each local store
\* query of an upload has as offset the number of that upload's locations already
\* returned.
C3_LocalPagesInOrder ==
    /\ localPages = SubSeq(FullLocal, 1, Len(localPages))
    /\ (Returned /\ page.localCalled) =>
          /\ Len(page.local) = Min(limit, Len(FullLocal) - LocalBefore)
          /\ \A k \in 1..Len(page.calls) :
                page.calls[k].op = "localSearch" =>
                    page.calls[k].offset =
                        ReturnedOf(page.calls[k].id,
                                   LocalBefore + (limit - page.calls[k].limit))
    /\ (Returned /\ cur.Phase # "local") => localPages = FullLocal

\* a page that ends one upload's list and starts the next one's
C3_Witness ==
    /\ Returned
    /\ Len(page.local) = 2
    /\ page.local[1].DumpID = 5
    /\ page.local[2].DumpID = 6
    /\ LocalBefore > 0

\* a step that is a call of References
Called == page' # page

PhaseOf(tok) == decodeCursor(tok).cursor.Phase

LocalQueries(p) == {k \in 1..Len(p.calls) : p.calls[k].op = "localSearch"}

\* C4: across the cursors of one request the phase only moves local -> remote ->
\* done: a call resolved from a remote cursor never returns a local cursor and
\* never queries the local store.
C4_PhaseOneWay ==
    [][(Called /\ page'.submitted = token /\ token.kind = "cursor"
        /\ PhaseOf(token) = "remote" /\ result'.err = {})
       => /\ cur'.Phase \in {"remote", "done"}
          /\ result'.nextCursor.kind = "cursor" => PhaseOf(result'.nextCursor) = "remote"
          /\ LocalQueries(page') = {}]_vars

\* a page resolved from a remote cursor that left the request unfinished
C4_Witness ==
    /\ Returned
    /\ page.submitted.kind = "cursor"
    /\ PhaseOf(page.submitted) = "remote"
    /\ status = "paging"

\* C5: when pageLocalReferences returns hasMore = false LocalBatchOffset equals
\* len(AdjustedUploads), and when it returns hasMore = true it is smaller.
C5_HasMoreMatchesBatchOffset ==
    (Returned /\ page.localCalled) =>
        IF page.localHasMore
        THEN page.localCursor.LocalBatchOffset < Len(page.localCursor.AdjustedUploads.items)
        ELSE page.localCursor.LocalBatchOffset = Len(page.localCursor.AdjustedUploads.items)

\* phase 1 ended on the page that drained the second of two uploads
C5_Witness ==
    /\ Returned
    /\ page.localCalled
    /\ ~page.localHasMore
    /\ page.localCursor.LocalBatchOffset = 2
    /\ page.local # <<>>
    /\ LocalBefore > 0

\* C6: no location of the remote phase's contribution has the DumpID and path of
\* an adjusted upload and a range that contains that upload's adjusted position.
C6_NoSourceLocationFromRemote ==
    \A k \in 1..Len(page.remote) :
        \A i \in 1..Len(CursorAdjusted) :
            ~ /\ page.remote[k].DumpID = CursorAdjusted[i].DumpID
              /\ page.remote[k].Path = CursorAdjusted[i].AdjustedPath
              /\ LexLE(page.remote[k].Range.Start, CursorAdjusted[i].AdjustedPosition)
              /\ LexLE(CursorAdjusted[i].AdjustedPosition, page.remote[k].Range.End)

\* the moniker search ran over a visible upload, and locations of it were returned
C6_Witness ==
    /\ Returned
    /\ \E k \in 1..Len(page.searched) : 5 \in Range(page.searched[k])
    /\ \E k \in 1..Len(page.remote) : page.remote[k].DumpID = 5
    /\ 5 \in IDsOf(db.adjusted)

\* the IDs the cursor of a token caches as adjusted uploads
TokenUploads(tok) ==
    {decodeCursor(tok).cursor.AdjustedUploads.items[i].DumpID :
        i \in 1..Len(decodeCursor(tok).cursor.AdjustedUploads.items)}

\* C7: a call resolved from a cursor whose cached AdjustedUploads names an ID the
\* upload cache does not hold returns ErrConcurrentModification, no locations and
\* an empty cursor, and makes no local or remote search.
C7_ConcurrentModification ==
    [][(Called /\ page'.submitted = token /\ ~(TokenUploads(token) \subseteq uploadCache))
       => /\ result'.err = {"ErrConcurrentModification"}
          /\ result'.locations = <<>>
          /\ result'.nextCursor = EmptyToken
          /\ \A k \in 1..Len(page'.calls) :
                page'.calls[k].op \notin {"localSearch", "scan", "monikerLocations"}]_vars

C7_Witness ==
    /\ result.err = {"ErrConcurrentModification"}
    /\ ~(TokenUploads(page.submitted) \subseteq uploadCache)

\* C8: every failure of a store access made while resolving a page makes References
\* return an error, no locations and an empty cursor.
C8_StoreFailuresSurface ==
    (\E k \in 1..Len(page.calls) : ~page.calls[k].ok) =>
        /\ result.err # {}
        /\ result.locations = <<>>
        /\ result.nextCursor = EmptyToken

\* C9: a token that does not decode makes References return an error, no
\* locations and an empty cursor, before any store access.
C9_MalformedCursorRejected ==
    page.submitted = MalformedToken =>
        /\ result.err # {}
        /\ result.locations = <<>>
        /\ result.nextCursor = EmptyToken
        /\ page.calls = <<>>
        /\ status = "failed"

C9_Witness == page.submitted = MalformedToken /\ "invalid cursor" \in result.err

\* C10: on a successful page the returned cursor is the empty token exactly when
\* the phase is done after the page, and the encoding of the cursor otherwise.
C10_NextCursor ==
    Returned =>
        /\ result.nextCursor = EmptyToken <=> cur.Phase = "done"
        /\ cur.Phase # "done" =>
              /\ result.nextCursor = encodeCursor(cur)
              /\ decodeCursor(result.nextCursor) = [err |-> {}, cursor |-> cur]

\* a page that left the request in the remote phase
C10_Witness == Returned /\ cur.Phase = "remote" /\ result.nextCursor # EmptyToken

\* the total the candidate scan of the request reports
ScanTotal == IF db.monikers = <<>> THEN 0 ELSE Len(db.scan)

Ops(p) == {p.calls[k].op : k \in 1..Len(p.calls)}

\* C11: a fresh request whose local phase ends with fewer than limit locations
\* and whose candidate scan reports a total of 0 gets, in that one page, exactly
\* the local locations; the page enters the remote phase (it issues the scan),
\* ends in phase done and returns the empty cursor.
C11_LocalThenDoneInOnePage ==
    (Returned /\ page.submitted = EmptyToken /\ Len(FullLocal) < limit /\ ScanTotal = 0) =>
        /\ result.locations = adjustLocations(FullLocal)
        /\ page.local = FullLocal
        /\ page.remote = <<>>
        /\ "scan" \in Ops(page)
        /\ cur.Phase = "done"
        /\ result.nextCursor = EmptyToken

C11_Witness ==
    /\ Returned
    /\ page.submitted = EmptyToken
    /\ Len(FullLocal) = 1
    /\ limit = 2
    /\ ScanTotal = 0
    /\ result.locations = FullLocal

ScannedRows(b) == {db.scan[b.offset + k] : k \in 1..b.recordsScanned}

\* the filter of a row holds the identifier of an ordered moniker
Positive(row) ==
    /\ row.Filter.valid
    /\ \E m \in 1..Len(db.monikers) : db.monikers[m] \in row.Filter.ids

DefinitionIDs == Range(cur.DefinitionUploadIDs.items)

\* C13: of the candidates a batch acquisition scanned, one that is not a
\* definition upload is in the returned batch exactly if a scanned row of it has
\* a filter that tests positive for an ordered moniker.
C13_BatchIsFilterPositives ==
    \A i \in 1..Len(page.batches) :
        \A row \in ScannedRows(page.batches[i]) :
            row.DumpID \notin DefinitionIDs =>
                (row.DumpID \in Range(page.batches[i].ids)
                 <=> \E other \in ScannedRows(page.batches[i]) :
                        other.DumpID = row.DumpID /\ Positive(other))

\* C14: no batch returned by uploadIDsWithReferences holds a definition upload
\* ID of the request.
C14_IgnoredNeverInBatch ==
    \A i \in 1..Len(page.batches) : Range(page.batches[i].ids) \cap DefinitionIDs = {}

\* C15: when the request is done, every definition upload ID was among the
\* indexes of some moniker search of the request.
C15_DefinitionUploadsSearched ==
    Completed => DefinitionIDs \subseteq searchedIDs

\* C16: the BatchIDs of a cursor hold no ID of an upload of its AdjustedUploads.
C16_BatchExcludesVisible ==
    \A id \in Range(cur.BatchIDs.items) :
        \A i \in 1..Len(CursorAdjusted) : CursorAdjusted[i].DumpID # id

\* the rows the store hands to a scan that starts at offset off
ScanWindow(off) == Window(db.scan, off, maximumIndexesPerMonikerSearch)

ScanOffsets(p) ==
    SelectSeq([k \in 1..Len(p.calls) |->
                  IF p.calls[k].op = "scan" THEN p.calls[k].offset ELSE -1],
              LAMBDA o : o # -1)

\* what holds of the batch acquisitions of one page
BatchesAdvance(p) ==
    /\ \A i \in 1..Len(p.batches) :
          /\ p.batches[i].totalCount = ScanTotal
          /\ p.batches[i].recordsScanned <= Len(ScanWindow(p.batches[i].offset))
          /\ p.batches[i].recordsScanned < Len(ScanWindow(p.batches[i].offset))
                => Len(p.batches[i].ids) = maximumIndexesPerMonikerSearch
          /\ Range(p.batches[i].ids)
                \subseteq {row.DumpID : row \in ScannedRows(p.batches[i])}
          /\ p.batches[i].after =
                IF p.batches[i].offset + p.batches[i].recordsScanned
                      >= p.batches[i].totalCount
                THEN -1
                ELSE p.batches[i].offset + p.batches[i].recordsScanned
          /\ i < Len(p.batches) =>
                /\ p.batches[i].after # -1
                /\ p.batches[i + 1].offset = p.batches[i].after
    /\ ScanOffsets(p) = [i \in 1..Len(p.batches) |-> p.batches[i].offset]

\* C17: each batch acquisition advances RemoteBatchOffset by the number of
\* records it read, matched or not, and sets it to -1 exactly when the advanced
\* offset is at least the total the store reported; the next acquisition starts
\* at the advanced offset; once RemoteBatchOffset is -1 it stays -1 and no further
\* candidate scan is issued.
C17_RemoteBatchOffset ==
    [][Called =>
          IF result'.err # {} THEN cur'.RemoteBatchOffset = cur.RemoteBatchOffset
          ELSE /\ BatchesAdvance(page')
               /\ page'.batches # <<>> =>
                     /\ page'.batches[1].offset = cur.RemoteBatchOffset
                     /\ cur'.RemoteBatchOffset = page'.batches[Len(page'.batches)].after
               /\ page'.batches = <<>> => cur'.RemoteBatchOffset = cur.RemoteBatchOffset
               /\ cur.RemoteBatchOffset = -1 =>
                     /\ cur'.RemoteBatchOffset = -1
                     /\ "scan" \notin Ops(page')]_vars

\* the second acquisition of a scan of 52 rows, of which the first read 50 and
\* matched 49
C17_Witness ==
    /\ Returned
    /\ db.scan = LongScanSparse
    /\ \E i \in 1..Len(page.batches) :
          /\ page.batches[i].offset = 50
          /\ page.batches[i].recordsScanned = 2
          /\ page.batches[i].after = -1

\* C18: a page resolved from the cursor of an earlier page does not call the
\* moniker resolver, and leaves the cursor's OrderedMonikers as they were.
C18_MonikersComputedOnce ==
    [][(Called /\ page'.submitted = token /\ token.kind = "cursor") =>
          /\ "orderedMonikers" \notin Ops(page')
          /\ result'.err = {} => cur'.OrderedMonikers = cur.OrderedMonikers]_vars

\* the adjusted uploads a cursor holds, as adjustedUploadsFromCursor rebuilds them
Rebuilt(cau) ==
    [i \in 1..Len(cau) |->
        [ID |-> cau[i].DumpID, AdjustedPath |-> cau[i].AdjustedPath,
         AdjustedPosition |-> cau[i].AdjustedPosition,
         AdjustedPathInBundle |-> cau[i].AdjustedPathInBundle]]

\* C19: a call resolved from a cursor that holds AdjustedUploads (all of them in
\* the upload cache) uses the uploads of the cursor, in the cursor's order and
\* with the cursor's adjusted path, position and path in bundle, and does not
\* adjust the visible uploads again.
C19_AdjustedUploadsFromCursor ==
    [][(/\ Called
        /\ page'.submitted = token
        /\ decodeCursor(token).cursor.AdjustedUploads.present
        /\ TokenUploads(token) \subseteq uploadCache) =>
          /\ "adjustUploads" \notin Ops(page')
          /\ page'.adjusted = Rebuilt(decodeCursor(token).cursor.AdjustedUploads.items)
          /\ result'.err = {} => cur'.AdjustedUploads = cur.AdjustedUploads]_vars

\* a later page of a request over two visible uploads
C19_Witness ==
    /\ Returned
    /\ page.submitted.kind = "cursor"
    /\ Len(page.adjusted) = 2
    /\ page.adjusted[1].AdjustedPathInBundle # page.adjusted[2].AdjustedPathInBundle
    /\ page.local # <<>>

\* C20: the cursor a page returns holds the definition upload IDs as present,
\* also when there are none, and a call resolved from such a cursor does not ask
\* the store for the definition uploads and keeps the cursor's IDs.
C20_DefinitionUploadIDsCached ==
    [][Called =>
          /\ (result'.err = {} /\ result'.nextCursor # EmptyToken) =>
                decodeCursor(result'.nextCursor).cursor.DefinitionUploadIDs
                    = Some(SelectSeq(definitionUploads(db, db.monikers),
                                     LAMBDA id : id \notin IDsOf(db.adjusted)))
          /\ (page'.submitted = token /\ token.kind = "cursor") =>
                /\ "definitionUploads" \notin Ops(page')
                /\ result'.err = {} => cur'.DefinitionUploadIDs = cur.DefinitionUploadIDs]_vars

\* a later page of a request with monikers and without definition uploads
C20_Witness ==
    /\ Returned
    /\ page.submitted.kind = "cursor"
    /\ decodeCursor(page.submitted).cursor.DefinitionUploadIDs = Some(<<>>)
    /\ db.monikers # <<>>

\* the positions of the calls of op in the store calls of a page
CallsOf(p, op) == {k \in 1..Len(p.calls) : p.calls[k].op = op}

\* C21: every scanner that uploadIDsWithReferences opened is closed exactly
\* once, whether the scan ended normally, on a Next error or on a filter that
\* does not decode, and no Close is issued for a scanner that failed to open.
C21_ScannerClosedOnce ==
    /\ \A k \in CallsOf(page, "scan") :
          IF page.calls[k].ok
          THEN k < Len(page.calls) /\ page.calls[k + 1].op = "scanClose"
          ELSE k = Len(page.calls)
    /\ \A k \in CallsOf(page, "scanClose") :
          k > 1 /\ page.calls[k - 1].op = "scan" /\ page.calls[k - 1].ok

\* a scan that ended on a filter that does not decode, and was closed
C21_Witness ==
    /\ result.err = {"bloomfilter.Decode"}
    /\ CallsOf(page, "scanClose") # {}

\* the error in flight when the scanner of the page's failing scan is closed
InFlight ==
    IF NextFails(page.fail) THEN {"scanNext"}
    ELSE IF \E i \in 1..Len(db.scan) : ~db.scan[i].Filter.valid THEN {"bloomfilter.Decode"}
    ELSE {}

\* C22: when closing the scanner fails, the error returned holds the close
\* failure together with the error in flight (of Next or of the filter decoding),
\* and a close failure alone fails the call.
C22_CloseFailureCombined ==
    (\E k \in CallsOf(page, "scanClose") : ~page.calls[k].ok) =>
        /\ result.err = InFlight \cup {"scanClose"}
        /\ result.locations = <<>>
        /\ result.nextCursor = EmptyToken

\* Close failed after Next had failed
C22_Witness ==
    /\ result.err = {"scanNext", "scanClose"}
    /\ \E k \in CallsOf(page, "scanClose") : ~page.calls[k].ok

\* C23: rangeContainsPosition(r, pos) is true exactly if r.Start <= pos <= r.End
\* in the lexicographic order of (line, character), both ends included, for every
\* range and position.
C23_ContainsIffBetween ==
    probe.made =>
        (probe.contains <=> /\ LexLE(probe.range.Start, probe.pos)
                            /\ LexLE(probe.pos, probe.range.End))

\* a position on the last character of a range of several lines, left of the
\* character the range starts at
C23_Witness ==
    /\ probe.made
    /\ probe.contains
    /\ probe.pos = probe.range.End
    /\ probe.range.Start.Line < probe.range.End.Line
    /\ probe.pos.Character < probe.range.Start.Character

\* the calls of pageRemoteReferences of the page that made a moniker search
Searches(p) == {i \in 1..Len(p.steps) : p.steps[i].search}

\* C24: a moniker search advances RemoteOffset by the number of locations the
\* store returned, whatever the post-filter keeps of them; when the advanced
\* offset reaches the total of the batch, BatchIDs is cleared and RemoteOffset is
\* 0; and in every cursor an empty BatchIDs comes with RemoteOffset = 0.
C24_RemoteOffset ==
    /\ \A i \in Searches(page) :
          IF page.steps[i].offset + page.steps[i].returned >= page.steps[i].totalCount
          THEN /\ page.steps[i].cursor.RemoteOffset = 0
               /\ page.steps[i].cursor.BatchIDs.items = <<>>
          ELSE /\ page.steps[i].cursor.RemoteOffset
                     = page.steps[i].offset + page.steps[i].returned
               /\ page.steps[i].cursor.BatchIDs.items = page.steps[i].batch
    /\ \A i \in 1..Len(page.steps) :
          page.steps[i].cursor.BatchIDs.items = <<>> => page.steps[i].cursor.RemoteOffset = 0
    /\ cur.BatchIDs.items = <<>> => cur.RemoteOffset = 0

\* a search whose rows the post-filter dropped advanced the offset all the same
C24_Witness ==
    /\ Returned
    /\ \E i \in Searches(page) :
          /\ page.steps[i].returned > page.steps[i].kept
          /\ page.steps[i].cursor.RemoteOffset = page.steps[i].offset + page.steps[i].returned
          /\ page.steps[i].offset > 0

\* C25: pageRemoteReferences returns hasMore = true exactly if it leaves BatchIDs
\* non-empty or RemoteBatchOffset >= 0, and a page ends in phase done exactly if
\* its last remote call returned hasMore = false; no call before the last did.
C25_HasMoreAndDone ==
    Returned =>
        /\ \A i \in 1..Len(page.steps) :
              /\ page.steps[i].hasMore
                    <=> (\/ Len(page.steps[i].cursor.BatchIDs.items) > 0
                         \/ page.steps[i].cursor.RemoteBatchOffset >= 0)
              /\ i < Len(page.steps) => page.steps[i].hasMore
        /\ cur.Phase = "done"
              <=> (page.steps # <<>> /\ ~page.steps[Len(page.steps)].hasMore)

\* the batch was searched to its end while candidates remained to be scanned
C25_Witness ==
    /\ Returned
    /\ cur.Phase = "remote"
    /\ page.steps # <<>>
    /\ page.steps[Len(page.steps)].cursor.BatchIDs.items = <<>>
    /\ page.steps[Len(page.steps)].cursor.RemoteBatchOffset > 0
    /\ page.steps[Len(page.steps)].hasMore

\* C26: each moniker search of a page runs over exactly the indexes of the
\* cursor's BatchIDs, all of which the upload cache then holds.
C26_SearchesExactlyBatch ==
    \A i \in Searches(page) :
        /\ Range(page.steps[i].uploads) = Range(page.steps[i].batch)
        /\ Range(page.steps[i].batch) \subseteq page.steps[i].cache

\* the locations a page collected, before their positions are adjusted
Collected == page.local \o page.remote

PaginateChanges == status = "paging" => token # page.submitted

\* C28: a caller that keeps feeding the returned cursor back into References, with
\* stores that do not change and do not fail, never receives the cursor it
\* submitted and eventually receives the empty cursor.
C28_EventuallyDone ==
    /\ []PaginateChanges
    /\ <>(status = "done" /\ cur.Phase = "done" /\ token = EmptyToken)

\* a request of five pages or more that went through both phases
C28_Witness ==
    /\ status = "done"
    /\ limit = 1
    /\ Len(pages) >= 5
    /\ localPages # <<>>
    /\ Len(localPages) < Len(pages)

\* what holds of the offsets of a cursor
CursorShape(c) ==
    /\ 0 <= c.LocalBatchOffset
    /\ c.LocalBatchOffset <= Len(c.AdjustedUploads.items)
    /\ c.Phase = "local" =>
          /\ c.RemoteBatchOffset = 0
          /\ c.RemoteOffset = 0
          /\ c.BatchIDs.items = <<>>
    /\ c.Phase \in {"remote", "done"} =>
          /\ c.LocalBatchOffset = Len(c.AdjustedUploads.items)
          /\ c.LocalOffset = 0

\* C29: in every cursor 0 <= LocalBatchOffset <= len(AdjustedUploads); in phase
\* local RemoteBatchOffset = 0, RemoteOffset = 0 and BatchIDs is empty; from phase
\* remote on LocalBatchOffset = len(AdjustedUploads) and LocalOffset = 0, and
\* neither changes again.
C29_CursorOffsets ==
    [][/\ CursorShape(cur')
       /\ result'.nextCursor.kind = "cursor" =>
             CursorShape(decodeCursor(result'.nextCursor).cursor)
       /\ cur.Phase \in {"remote", "done"} =>
             /\ cur'.LocalBatchOffset = cur.LocalBatchOffset
             /\ cur'.LocalOffset = cur.LocalOffset]_vars

\* a later page of the remote phase of a request over two visible uploads
C29_Witness ==
    /\ Returned
    /\ page.startPhase = "remote"
    /\ cur.Phase = "remote"
    /\ cur.LocalBatchOffset = 2
    /\ cur.BatchIDs.items # <<>>

Ascending(ids) == \A i \in 1..(Len(ids) - 1) : ids[i] < ids[i + 1]

\* C30: every batch uploadIDsWithReferences returns, and every BatchIDs of a
\* cursor, holds at most 50 IDs in strictly ascending order (so none twice).
C30_BatchSortedAndBounded ==
    /\ \A i \in 1..Len(page.batches) :
          /\ Len(page.batches[i].ids) <= maximumIndexesPerMonikerSearch
          /\ Ascending(page.batches[i].ids)
    /\ Len(cur.BatchIDs.items) <= maximumIndexesPerMonikerSearch
    /\ Ascending(cur.BatchIDs.items)

\* a batch of 50 indexes was acquired while further rows remained, and a batch
\* of two indexes that the scan yields in descending order
C30_Witness ==
    /\ Returned
    /\ \/ \E i \in 1..Len(page.batches) :
             /\ Len(page.batches[i].ids) = maximumIndexesPerMonikerSearch
             /\ page.batches[i].after = maximumIndexesPerMonikerSearch
             /\ cur.BatchIDs.items = page.batches[i].ids
       \/ /\ Len(db.scan) = 2
          /\ db.scan[1].DumpID > db.scan[2].DumpID
          /\ cur.BatchIDs.items = <<db.scan[2].DumpID, db.scan[1].DumpID>>

====
